---------------------------- MODULE Spec2Model ----------------------------
(***************************************************************************)
(* Secret Santa: the constrained random-assignment engine of               *)
(* zockerei/secret-santa and the store it reads and writes.                *)
(*                                                                         *)
(* The repository holds three generations of the engine:                   *)
(*   "main"   src/main.py          (names, receiver table of src/app/sql.py)*)
(*   "logic"  src/logic.py         (names, store of src/sql.py)            *)
(*   "app"    src/app/logic.py     (ids + names, store of src/app/queries) *)
(* The variable `variant` says which one a behaviour runs.                 *)
(***************************************************************************)
EXTENDS Integers, Sequences, FiniteSets, TLC

VARIABLES
    variant,                \* which generation of the engine runs
    participants,           \* app: the `participants` argument, a list of [id, name]
    history,                \* per giver, the receiver list the store returns (all years)
    past_receivers,         \* the dict handed to is_valid_pairing
    candidate_assignment,   \* the candidate of the current attempt, as (giver, receiver) items
    attempts,               \* iterations of the sampling loop started so far
    accepted,               \* a candidate passed the acceptance test of the loop
    result,                 \* what generate_secret_santa returned
    verdict,                \* what is_valid_pairing returned ("unset" before the call)
    names,                  \* the fixed giver order (`names`, `participant_ids`)
    pc,                     \* position: "call", "loop", "returned", "raised"
    Participant,            \* table participants: rows [id, name, admin]
    PastReceiver,           \* table past_receivers: rows [participant_id, receiver_id, year]
    Assignment,             \* table assignments in insertion order: rows [giver_id, receiver_id, year]
    flash,                  \* the message the last request flashed
    requests,               \* the start_new_run requests in progress, one record per slot
    session                 \* the Flask session of the browser: [user, role]

engineVars == <<variant, participants, history, past_receivers, candidate_assignment,
                attempts, accepted, result, verdict, names, pc>>

storeVars == <<Participant, PastReceiver, Assignment, flash>>

webVars == <<requests, session>>

vars == <<variant, participants, history, past_receivers, candidate_assignment,
          attempts, accepted, result, verdict, names, pc,
          Participant, PastReceiver, Assignment, flash, requests, session>>

---------------------------------------------------------------------------
(* Bounds of the model *)

\* attempts of the sampling loop (1000 in src/app/logic.py, 100 in src/logic.py, src/main.py)
MaxAttempts == 3
\* history records (giver, receiver) drawn for one call
MaxRecords == 3

\* participant names and ids of the model
Names == {"A", "B", "C"}
Ids == {1, 2, 3}
NameOrder == <<"A", "B", "C">>
\* the name column of the participants table: unique names (src/app/models.py)
NameMaps == { (1 :> "A" @@ 2 :> "B" @@ 3 :> "C"), (1 :> "B" @@ 2 :> "C" @@ 3 :> "A") }

Variants == {"app", "logic", "main"}

\* the slice [-2:] of src/logic.py, src/main.py and src/app/logic.py
Lookback == 2

\* the session of a browser nobody has logged in from
NoSession == [user |-> "None", role |-> "None"]

---------------------------------------------------------------------------
(* Python helpers *)

Range(s) == { s[i] : i \in DOMAIN s }

\* s[:k]
FirstK(s, k) == IF Len(s) <= k THEN s ELSE SubSeq(s, 1, k)

\* s[-k:]
LastK(s, k) == IF Len(s) <= k THEN s ELSE SubSeq(s, Len(s) - k + 1, Len(s))

\* d.get(key, [])
Get(d, key) == IF key \in DOMAIN d THEN d[key] ELSE <<>>

\* zip(givers, receivers) as a list of (giver, receiver) tuples
Zip(givers, receivers) ==
    [i \in 1..(IF Len(givers) <= Len(receivers) THEN Len(givers) ELSE Len(receivers))
        |-> <<givers[i], receivers[i]>>]

\* the keys of a list of items
Keys(items) == { items[i][1] : i \in DOMAIN items }

\* drawing each receiver on its own: random.choices(l, k=len(l))
ShufflesWithReplacement(l) == [DOMAIN l -> Range(l)]

\* a sampler that draws among the orderings without a fixed point only
Derangements(l) ==
    { [i \in DOMAIN l |-> l[f[i]]] :
        f \in { g \in [DOMAIN l -> DOMAIN l] :
                  /\ \A i, j \in DOMAIN l : g[i] = g[j] => i = j
                  /\ \A i \in DOMAIN l : l[g[i]] # l[i] } }

\* a "shuffle" that only moves every entry one place on
ShiftByOne(l) == { [i \in DOMAIN l |-> l[(i % Len(l)) + 1]] }

\* every reordering of a list: what random.sample(l, len(l)) and random.shuffle can yield
Shuffles(l) ==
    { [i \in DOMAIN l |-> l[f[i]]] :
        f \in { g \in [DOMAIN l -> DOMAIN l] : \A i, j \in DOMAIN l : g[i] = g[j] => i = j } }

\* the subsequence of NameOrder / 1..3 whose members are in S, in ascending order
RECURSIVE Ascending(_, _, _)
Ascending(order, i, S) ==
    IF i > Len(order) THEN <<>>
    ELSE (IF order[i] \in S THEN <<order[i]>> ELSE <<>>) \o Ascending(order, i + 1, S)

---------------------------------------------------------------------------
(* The validators *)

\* next((p['name'] for p in participants if p['id'] == recipient_id), None)
recipient_name(parts, recipient_id) ==
    LET hits == { i \in DOMAIN parts : parts[i].id = recipient_id }
    IN  IF hits = {} THEN "None"
        ELSE parts[CHOOSE i \in hits : \A j \in hits : i <= j].name

\* src/app/logic.py without lines 24-25
app_is_valid_pairing_no_self_test(assignments, past, parts) ==
    \A i \in DOMAIN assignments :
        recipient_name(parts, assignments[i][2]) \notin Range(Get(past, assignments[i][1]))

\* src/app/logic.py: self-pair test, then the receiver's name against the whole list
app_is_valid_pairing(assignments, past, parts) ==
    \A i \in DOMAIN assignments :
        LET giver_id == assignments[i][1]
            recipient_id == assignments[i][2]
        IN  /\ giver_id # recipient_id
            /\ recipient_name(parts, recipient_id) \notin Range(Get(past, giver_id))

\* src/logic.py: the receiver against the last two entries; no self-pair test
logic_is_valid_pairing(assignments, past_receiver) ==
    \A i \in DOMAIN assignments :
        assignments[i][2] \notin Range(LastK(Get(past_receiver, assignments[i][1]), Lookback))

\* src/main.py: the same test as src/logic.py
main_is_valid_pairing(assignments, past_receiver) ==
    \A i \in DOMAIN assignments :
        assignments[i][2] \notin Range(LastK(Get(past_receiver, assignments[i][1]), Lookback))

\* is_valid_pairing of the running variant
is_valid_pairing(assignments, past, parts) ==
    CASE variant = "app"   -> app_is_valid_pairing(assignments, past, parts)
      [] variant = "logic" -> logic_is_valid_pairing(assignments, past)
      [] variant = "main"  -> main_is_valid_pairing(assignments, past)

\* the slice [-1:]
app_last_one(receivers) == LastK(receivers, 1)

\* no slice
app_whole_list(receivers) == receivers

\* the list comprehension of fetch_past_receivers, src/app/logic.py:93
app_last_two(receivers) == LastK(receivers, Lookback)

\* fetch_past_receivers of src/app/logic.py over the rows the store returns
fetch_past_receivers(parts, rows) ==
    [id \in { parts[i].id : i \in DOMAIN parts } |-> app_last_two(Get(rows, id))]


---------------------------------------------------------------------------
(* Inputs *)

BoundedSeqs(S, n) == UNION { [1..k -> S] : k \in 0..n }

\* the receivers of one giver among a list of (giver, receiver) records, in list order
RECURSIVE ReceiversOf(_, _)
ReceiversOf(recs, giver) ==
    IF recs = <<>> THEN <<>>
    ELSE (IF recs[1][1] = giver THEN <<recs[1][2]>> ELSE <<>>) \o ReceiversOf(Tail(recs), giver)

\* every dict {giver: [receiver name, ...]} over the givers `keys` with at most MaxRecords entries
Histories(keys) ==
    { [k \in keys |-> ReceiversOf(recs, k)] : recs \in BoundedSeqs(keys \X Names, MaxRecords) }

\* the rows of get_all_participants for the ids S under the name column nm
ParticipantRows(S, nm) ==
    LET order == Ascending(<<1, 2, 3>>, 1, S)
    IN  [i \in DOMAIN order |-> [id |-> order[i], name |-> nm[order[i]]]]

\* the dict that reaches is_valid_pairing: src/app/logic.py slices in fetch_past_receivers,
\* src/logic.py and src/main.py hand the fetched dict over as it is
HandedOver(v, parts, hist) ==
    IF v = "app" THEN fetch_past_receivers(parts, hist) ELSE hist

\* the giver order: participant_ids (app), list(past_year_receiver.keys()) (logic, main);
\* the dict is filled in the order of the participant rows
GiverOrder(v, parts, hist) ==
    IF v = "app" THEN [i \in DOMAIN parts |-> parts[i].id]
    ELSE Ascending(NameOrder, 1, DOMAIN hist)

\* the engine called on its own: no store behind it, no request in progress
NoStore ==
    /\ Participant = {}
    /\ PastReceiver = {}
    /\ Assignment = <<>>
    /\ flash = ""
    /\ requests = <<>>
    /\ session = NoSession

\* variant, pool and history of one call
InitInputs ==
    /\ variant \in Variants
    /\ \/ /\ variant = "app"
          /\ \E S \in SUBSET Ids, nm \in NameMaps :
                /\ participants = ParticipantRows(S, nm)
                /\ history \in Histories(S)
       \/ /\ variant \in {"logic", "main"}
          /\ participants = <<>>
          /\ \E S \in SUBSET Names : history \in Histories(S)

---------------------------------------------------------------------------
(* SpecValid: is_valid_pairing applied to one candidate *)

\* every dict over the givers `order` with receivers among them, as items
Candidates(order) ==
    { Zip(order, vals) : vals \in [DOMAIN order -> Range(order)] }

\* the dict d without the givers outside K
Restrict(d, K) == [k \in K |-> d[k]]

\* is_valid_pairing is also handed dicts that lack a giver: d.get(giver, []) reads such a
\* giver as one with an empty list, so the givers left out are among those with no entry
InitValid ==
    /\ InitInputs
    /\ \E K \in SUBSET DOMAIN history :
          /\ \A k \in DOMAIN history \ K : history[k] = <<>>
          /\ past_receivers = Restrict(HandedOver(variant, participants, history), K)
    /\ names = GiverOrder(variant, participants, history)
    /\ candidate_assignment \in Candidates(names)
    /\ attempts = 0
    /\ accepted = FALSE
    /\ result = <<>>
    /\ verdict = "unset"
    /\ pc = "call"
    /\ NoStore

\* a validator that takes the entries it examined off the lists: list.pop() for [-2:]
ValidatePairingConsuming ==
    /\ pc = "call"
    /\ verdict' = is_valid_pairing(candidate_assignment, past_receivers, participants)
    /\ past_receivers' = [g \in DOMAIN past_receivers |->
                              FirstK(past_receivers[g], Len(past_receivers[g]) - 1)]
    /\ pc' = "returned"
    /\ UNCHANGED <<variant, participants, history, candidate_assignment,
                   attempts, accepted, result, names>>
    /\ UNCHANGED storeVars
    /\ UNCHANGED webVars

\* one call of is_valid_pairing
ValidatePairing ==
    /\ pc = "call"
    /\ verdict' = is_valid_pairing(candidate_assignment, past_receivers, participants)
    /\ pc' = "returned"
    /\ UNCHANGED <<variant, participants, history, past_receivers, candidate_assignment,
                   attempts, accepted, result, names>>
    /\ UNCHANGED storeVars
    /\ UNCHANGED webVars

\* a second call with the arguments of the first; `attempts` counts the repeated calls
ValidatePairingAgain ==
    /\ pc = "returned"
    /\ attempts = 0
    /\ attempts' = 1
    /\ verdict' = is_valid_pairing(candidate_assignment, past_receivers, participants)
    /\ UNCHANGED <<variant, participants, history, past_receivers, candidate_assignment,
                   accepted, result, names, pc>>
    /\ UNCHANGED storeVars
    /\ UNCHANGED webVars

NextValid == ValidatePairing \/ ValidatePairingAgain

SpecValid == InitValid /\ [][NextValid]_vars

---------------------------------------------------------------------------
(* SpecGen: generate_secret_santa *)

\* the acceptance test without any self-pair test
AcceptsHistoryOnly(candidate, past, parts) ==
    CASE variant = "app"   -> app_is_valid_pairing_no_self_test(candidate, past, parts)
      [] variant = "logic" -> logic_is_valid_pairing(candidate, past)
      [] variant = "main"  -> main_is_valid_pairing(candidate, past)

\* the acceptance test of the sampling loop
Accepts(candidate, past, parts) ==
    CASE variant = "app"   -> app_is_valid_pairing(candidate, past, parts)
      [] variant = "logic" -> /\ \A i \in DOMAIN candidate : candidate[i][1] # candidate[i][2]
                              /\ logic_is_valid_pairing(candidate, past)
      [] variant = "main"  -> /\ ~ \E i \in DOMAIN candidate : candidate[i][1] = candidate[i][2]
                              /\ main_is_valid_pairing(candidate, past)

InitGen ==
    /\ InitInputs
    /\ past_receivers = <<>>
    /\ names = <<>>
    /\ candidate_assignment = <<>>
    /\ attempts = 0
    /\ accepted = FALSE
    /\ result = <<>>
    /\ verdict = "unset"
    /\ pc = "call"
    /\ NoStore

\* entry of generate_secret_santa up to the loop; src/app/logic.py fetches the history
\* here and raises ValueError("No participants found") when the store has no participant
GenCall ==
    /\ pc = "call"
    /\ IF variant = "app" /\ participants = <<>>
       THEN /\ pc' = "raised"
            /\ UNCHANGED <<past_receivers, names>>
       ELSE /\ pc' = "loop"
            /\ past_receivers' = HandedOver(variant, participants, history)
            /\ names' = GiverOrder(variant, participants, history)
    /\ UNCHANGED <<variant, participants, history, candidate_assignment, attempts,
                   accepted, result, verdict>>
    /\ UNCHANGED storeVars
    /\ UNCHANGED webVars

\* a loop body that records a valid candidate and goes on sampling: no `return`, no `break`
SampleKeepsLooking ==
    /\ pc = "loop"
    /\ attempts < MaxAttempts
    /\ \E recipients \in Shuffles(names) :
          LET candidate == Zip(names, recipients)
          IN  /\ candidate_assignment' = candidate
              /\ attempts' = attempts + 1
              /\ IF Accepts(candidate, past_receivers, participants)
                 THEN /\ accepted' = TRUE
                      /\ result' = candidate
                 ELSE UNCHANGED <<accepted, result>>
              /\ UNCHANGED pc
    /\ UNCHANGED <<variant, participants, history, past_receivers, verdict, names>>
    /\ UNCHANGED storeVars
    /\ UNCHANGED webVars

\* an iteration of `while True:` in place of `for _ in range(attempts):`
SampleUncounted ==
    /\ pc = "loop"
    /\ attempts < MaxAttempts
    /\ \E recipients \in Shuffles(names) :
          LET candidate == Zip(names, recipients)
          IN  /\ candidate_assignment' = candidate
              /\ UNCHANGED attempts
              /\ IF Accepts(candidate, past_receivers, participants)
                 THEN /\ accepted' = TRUE
                      /\ result' = candidate
                      /\ pc' = "returned"
                 ELSE UNCHANGED <<accepted, result, pc>>
    /\ UNCHANGED <<variant, participants, history, past_receivers, verdict, names>>
    /\ UNCHANGED storeVars
    /\ UNCHANGED webVars

\* one iteration of the loop: draw, zip, test, return on success
Sample ==
    /\ pc = "loop"
    /\ attempts < MaxAttempts
    /\ \E recipients \in Shuffles(names) :
          LET candidate == Zip(names, recipients)
          IN  /\ candidate_assignment' = candidate
              /\ attempts' = attempts + 1
              /\ IF Accepts(candidate, past_receivers, participants)
                 THEN /\ accepted' = TRUE
                      /\ result' = candidate
                      /\ pc' = "returned"
                 ELSE UNCHANGED <<accepted, result, pc>>
    /\ UNCHANGED <<variant, participants, history, past_receivers, verdict, names>>
    /\ UNCHANGED storeVars
    /\ UNCHANGED webVars

\* src/app/logic.py:62-63, src/logic.py:53-54: the loop ran out
RaiseValueError ==
    /\ pc = "loop"
    /\ attempts = MaxAttempts
    /\ variant \in {"app", "logic"}
    /\ pc' = "raised"
    /\ UNCHANGED <<variant, participants, history, past_receivers, candidate_assignment,
                   attempts, accepted, result, verdict, names>>
    /\ UNCHANGED storeVars
    /\ UNCHANGED webVars

\* src/main.py:86: the loop ran out and `assignment` is still the {} of line 67
ReturnAssignment ==
    /\ pc = "loop"
    /\ attempts = MaxAttempts
    /\ variant = "main"
    /\ result' = <<>>
    /\ pc' = "returned"
    /\ UNCHANGED <<variant, participants, history, past_receivers, candidate_assignment,
                   attempts, accepted, verdict, names>>
    /\ UNCHANGED storeVars
    /\ UNCHANGED webVars

NextGen == GenCall \/ Sample \/ RaiseValueError \/ ReturnAssignment

SpecGen == InitGen /\ [][NextGen]_vars

\* generate_secret_santa runs in one thread with nothing to wait for: a call that can take
\* a step takes it
SpecGenFair == InitGen /\ [][NextGen]_vars /\ WF_vars(NextGen)

---------------------------------------------------------------------------
(* Properties of generate_secret_santa (SpecGen) *)

\* the input pool
Pool ==
    IF variant = "app" THEN { participants[i].id : i \in DOMAIN participants }
    ELSE DOMAIN history

\* generate_secret_santa returned a candidate that passed the acceptance test
Success == pc = "returned" /\ accepted

\* the identifier under which a receiver is looked up in a history list
HistoryKey(receiver) ==
    IF variant = "app" THEN recipient_name(participants, receiver) ELSE receiver

\* the receiver is one of the last Lookback entries of the giver's history list
InLastYears(giver, receiver) ==
    LET h == IF giver \in DOMAIN history THEN history[giver] ELSE <<>>
    IN  \E j \in DOMAIN h : j > Len(h) - Lookback /\ h[j] = HistoryKey(receiver)

\* items is a bijection over the pool
IsBijection(items) ==
    /\ Len(items) = Cardinality(Pool)
    /\ { items[i][1] : i \in DOMAIN items } = Pool
    /\ { items[i][2] : i \in DOMAIN items } = Pool

\* items has no self-pair and no receiver of the giver's last Lookback years
IsValidAssignment(items) ==
    /\ IsBijection(items)
    /\ \A i \in DOMAIN items :
          items[i][1] # items[i][2] /\ ~ InLastYears(items[i][1], items[i][2])

\* no valid bijection exists for the pool and the history
Infeasible ==
    LET order == GiverOrder(variant, participants, history)
    IN  \A p \in { q \in [DOMAIN order -> Pool] : \A i, j \in DOMAIN order : q[i] = q[j] => i = j } :
            ~ IsValidAssignment(Zip(order, p))

\* C1: every assignment returned as a success is a bijection over the input pool: each
\* member once as giver, once as receiver, nobody from outside the pool.
C1_Bijection == Success => IsBijection(result)

C1_Witness ==
    /\ Success
    /\ Cardinality(Pool) = 3
    /\ IsBijection(result)
    /\ attempts > 1

\* C2: in every assignment returned as a success no giver is assigned to themselves.
C2_NoSelfAssignment ==
    Success => \A i \in DOMAIN result : result[i][1] # result[i][2]

C2_Witness ==
    /\ Success
    /\ Cardinality(Pool) >= 2
    /\ variant = "main"
    /\ \A i \in DOMAIN result : result[i][1] # result[i][2]

\* C3: in every assignment returned as a success, no giver's receiver is among the last
\* two entries of that giver's history.
C3_HistoryExclusion ==
    Success => \A i \in DOMAIN result : ~ InLastYears(result[i][1], result[i][2])

C3_Witness ==
    /\ Success
    /\ Cardinality(Pool) = 3
    /\ \E g \in Pool : Len(history[g]) = 3 /\ history[g][1] \notin Range(LastK(history[g], 2))
                        /\ \E i \in DOMAIN result :
                              result[i][1] = g /\ HistoryKey(result[i][2]) = history[g][1]

\* C4: when no valid bijection exists, generate ends in an explicit failure after
\* MaxAttempts attempts and returns no mapping, not even an empty one.
C4_ExplicitFailure ==
    (Infeasible /\ pc \in {"returned", "raised"}) => (pc = "raised" /\ attempts = MaxAttempts)

\* C5: for an empty pool or a pool of one, generate fails before drawing any candidate
\* and never returns a pairing.
C5_FailFast ==
    Cardinality(Pool) <= 1
        => (attempts = 0 /\ candidate_assignment = <<>> /\ pc # "returned")

\* generate_secret_santa is over: it returned or it raised
Ended == pc \in {"returned", "raised"}

\* C21: generate always terminates: it never samples more than MaxAttempts candidates and
\* every call ends, by returning or by raising, for every pool and history.
C21_Terminates == [](attempts <= MaxAttempts) /\ <>Ended

\* a call over a pool of three that used up every attempt and ended without a success
C21_Witness ==
    /\ Ended
    /\ ~ accepted
    /\ attempts = MaxAttempts
    /\ Cardinality(Pool) = 3

\* C22: generate returns the first sampled candidate that passes the acceptance test: the
\* attempt that draws it ends the call with exactly that candidate as the result, and
\* after the return nothing more is sampled.
C22_FirstValidReturned ==
    [][ /\ (/\ pc = "loop"
            /\ attempts' = attempts + 1
            /\ Accepts(candidate_assignment', past_receivers, participants))
              => (pc' = "returned" /\ accepted' /\ result' = candidate_assignment')
        /\ (pc = "loop" /\ pc' = "loop") => (~ accepted' /\ result' = <<>>)
        /\ pc = "returned" => UNCHANGED <<attempts, candidate_assignment, result>> ]_vars

\* the second attempt of the app engine drew the candidate that was returned
C22_Witness ==
    /\ Success
    /\ variant = "app"
    /\ attempts = 2
    /\ Len(result) = 3
    /\ result = candidate_assignment

\* the valid bijections of the pool: the fixed giver order zipped against an ordering of
\* the pool that has no self-pair and no receiver of the giver's last Lookback years
ValidAssignments ==
    LET order == GiverOrder(variant, participants, history)
    IN  { a \in { Zip(order, q) : q \in [DOMAIN order -> Pool] } : IsValidAssignment(a) }

\* C23: every valid bijection is a possible result: a call with a pool reaches the loop,
\* and in the loop every attempt can draw and return any valid bijection of the pool.
C23_EveryValidBijectionPossible ==
    /\ (pc = "call" /\ Pool # {}) => ENABLED (GenCall /\ pc' = "loop")
    /\ (pc = "loop" /\ attempts < MaxAttempts) =>
          \A a \in ValidAssignments : ENABLED (Sample /\ pc' = "returned" /\ result' = a)

\* a pool of three with empty history returned the derangement that sends each giver to
\* the one before it
C23_Witness ==
    /\ Success
    /\ Cardinality(Pool) = 3
    /\ \A g \in Pool : history[g] = <<>>
    /\ Cardinality(ValidAssignments) = 2
    /\ result = Zip(names, <<names[3], names[1], names[2]>>)

\* C24: a failure does not imply infeasibility: the call enters the loop without any
\* feasibility test, every attempt over a pool of two or more can draw a candidate that is
\* rejected, also when a valid assignment exists, and after MaxAttempts such draws the
\* call ends in its failure outcome.
C24_FailureDespiteFeasible ==
    /\ (pc = "call" /\ Cardinality(Pool) >= 2) => ENABLED (GenCall /\ pc' = "loop")
    /\ (pc = "loop" /\ attempts < MaxAttempts /\ Cardinality(Pool) >= 2) =>
          ENABLED (Sample /\ pc' = "loop")
    /\ (pc = "loop" /\ attempts = MaxAttempts) =>
          ENABLED ((RaiseValueError \/ ReturnAssignment) /\ ~ accepted')

\* a pool of three with a valid assignment in reach, and the call failed all the same
C24_Witness ==
    /\ ~ Infeasible
    /\ Cardinality(Pool) = 3
    /\ Ended
    /\ ~ accepted
    /\ attempts = MaxAttempts
    /\ \E g \in Pool : history[g] # <<>>

---------------------------------------------------------------------------
(* Properties of is_valid_pairing (SpecValid) *)

Returned == pc = "returned" /\ verdict \in BOOLEAN

HasSelfPair(items) == \E i \in DOMAIN items : items[i][1] = items[i][2]

HasRecentReceiver(items) == \E i \in DOMAIN items : InLastYears(items[i][1], items[i][2])

\* C6 as stated: is_valid_pairing returns false for every candidate with a self-pair.
C6_SelfPairRejected ==
    (Returned /\ HasSelfPair(candidate_assignment)) => verdict = FALSE

\* C6 amended: the is_valid_pairing of src/app/logic.py returns false for every candidate
\* with a self-pair, whatever the history.
C6_AppSelfPairRejected ==
    (Returned /\ variant = "app" /\ HasSelfPair(candidate_assignment)) => verdict = FALSE

C6_Witness ==
    /\ Returned
    /\ variant = "app"
    /\ Len(candidate_assignment) = 2
    /\ \A i \in DOMAIN candidate_assignment :
          candidate_assignment[i][1] = candidate_assignment[i][2]
    /\ \A g \in DOMAIN history : history[g] = <<>>
    /\ verdict = FALSE

\* C7: is_valid_pairing returns false for every candidate in which some giver's receiver
\* is among the last two entries of that giver's history; a giver the dict lacks has none.
C7_RecentReceiverRejected ==
    (Returned /\ HasRecentReceiver(candidate_assignment)) => verdict = FALSE

C7_Witness ==
    /\ Returned
    /\ ~ HasSelfPair(candidate_assignment)
    /\ DOMAIN past_receivers # DOMAIN history
    /\ \E i \in DOMAIN candidate_assignment :
          LET g == candidate_assignment[i][1]
          IN  /\ Len(history[g]) = 2
              /\ history[g][1] = HistoryKey(candidate_assignment[i][2])
              /\ history[g][2] # history[g][1]
    /\ verdict = FALSE

---------------------------------------------------------------------------
(* The store: tables participants, past_receivers, assignments
   (src/app/models.py, src/sql.py create_tables) *)

\* years a request can name
MaxYear == 2
Years == 1..MaxYear
\* rows of past_receivers in the model
MaxPastReceivers == 1

\* the participants of the model: three participants and one administrator
ParticipantTable ==
    { [id |-> 1, name |-> "A", admin |-> FALSE],
      [id |-> 2, name |-> "B", admin |-> FALSE],
      [id |-> 3, name |-> "C", admin |-> FALSE],
      [id |-> 4, name |-> "Z", admin |-> TRUE] }

\* str.lower()
Lower(n) ==
    CASE n = "A" -> "a" [] n = "B" -> "b" [] n = "C" -> "c" [] n = "Z" -> "z"
      [] OTHER -> n

\* a set of rows as a list in ascending id order (the order of the rowid)
RECURSIVE ById(_)
ById(rows) ==
    IF rows = {} THEN <<>>
    ELSE LET first == CHOOSE r \in rows : \A q \in rows : r.id <= q.id
         IN  <<first>> \o ById(rows \ {first})

\* a set as a list, in some order
RECURSIVE AsList(_)
AsList(S) ==
    IF S = {} THEN <<>>
    ELSE LET x == CHOOSE y \in S : TRUE IN <<x>> \o AsList(S \ {x})

\* [f(x) for x in l]
MapList(l, F(_)) == [i \in DOMAIN l |-> F(l[i])]

\* every row of participants, administrators included, as [id, name]
get_every_participant ==
    LET row(p) == [id |-> p.id, name |-> p.name]
    IN  MapList(ById(Participant), row)

\* get_all_participants: the rows with admin = 0, as [id, name]
get_all_participants ==
    LET row(p) == [id |-> p.id, name |-> p.name]
    IN  MapList(ById({ p \in Participant : ~ p.admin }), row)

\* the participant row with this id exists
HasParticipant(id) == \E p \in Participant : p.id = id

\* participants.name of the row with this id
NameOfId(id) == (CHOOSE p \in Participant : p.id = id).name

\* get_participant_id: the set holding the id of the row with this name, {} for None
get_participant_id(name) == { p.id : p \in { q \in Participant : q.name = name } }

\* ORDER BY year DESC: every list of the rows in which no row precedes one of a later
\* year; rows of one year come in any order
RECURSIVE OrderByYearDesc(_)
OrderByYearDesc(rows) ==
    IF rows = {} THEN { <<>> }
    ELSE UNION { { <<r>> \o l : l \in OrderByYearDesc(rows \ {r}) } :
                    r \in { q \in rows : \A o \in rows : q.year >= o.year } }

\* src/sql.py get_receivers_for_participant: past_receivers UNION ALL assignments, joined
\* with participants on the receiver, ORDER BY year DESC; every list the query can return
get_receivers_for_participant(person_id) ==
    LET past == { [table |-> "past_receivers", row |-> 0, receiver_id |-> r.receiver_id,
                   year |-> r.year] : r \in { q \in PastReceiver : q.participant_id = person_id } }
        given == { [table |-> "assignments", row |-> i, receiver_id |-> Assignment[i].receiver_id,
                    year |-> Assignment[i].year] :
                        i \in { j \in DOMAIN Assignment : Assignment[j].giver_id = person_id } }
        joined == { r \in past \cup given : HasParticipant(r.receiver_id) }
    IN  { MapList(l, LAMBDA r : [receiver_name |-> NameOfId(r.receiver_id), year |-> r.year]) :
            l \in OrderByYearDesc(joined) }

\* src/logic.py fetch_past_receiver: every dict {name: [receiver names]} it can build
logic_fetch_past_receiver ==
    LET parts == get_all_participants
        ids == { parts[i].id : i \in DOMAIN parts }
        lists == [id \in ids |-> get_receivers_for_participant(id)]
        pick == { f \in [ids -> UNION { lists[id] : id \in ids }] :
                    \A id \in ids : f[id] \in lists[id] }
    IN  { [n \in { parts[i].name : i \in DOMAIN parts } |->
              LET id == CHOOSE x \in ids : NameOfId(x) = n
              IN  MapList(f[id], LAMBDA r : r.receiver_name)] : f \in pick }

\* src/app/queries.py get_past_assignments (src/app/logic.py:86 calls it
\* get_assignments_for_giver): the assignments of a giver in table order, receiver named
get_past_assignments(giver_id) ==
    MapList(SelectSeq(Assignment, LAMBDA a : a.giver_id = giver_id /\ HasParticipant(a.receiver_id)),
            LAMBDA a : NameOfId(a.receiver_id))

\* get_current_receiver is not None
get_current_receiver(giver_id, year) ==
    \E i \in DOMAIN Assignment : Assignment[i].giver_id = giver_id /\ Assignment[i].year = year

\* check_duplicate_receiver of src/app/queries.py
check_duplicate_receiver(person_id, year) ==
    \E r \in PastReceiver : r.participant_id = person_id /\ r.year = year

\* the guard of queries.add_receiver: the receiver already has a past_receivers row that year
receiver_taken(receiver_id, year) ==
    \E r \in PastReceiver : r.receiver_id = receiver_id /\ r.year = year

---------------------------------------------------------------------------
(* SpecHist: the history list of src/sql.py and src/logic.py over stored rows *)

\* the engine variables a store request leaves alone
IdleEngine(v) ==
    /\ variant = v
    /\ participants = <<>>
    /\ history = <<>>
    /\ past_receivers = <<>>
    /\ candidate_assignment = <<>>
    /\ attempts = 0
    /\ accepted = FALSE
    /\ result = <<>>
    /\ verdict = "unset"
    /\ names = <<>>
    /\ pc = "call"

\* the rows one giver can have: some receiver other than the giver, some year
RowsOf(g) ==
    { [giver |-> g, receiver |-> r, year |-> y] : r \in {1, 2, 3} \ {g}, y \in 1..(MaxYear + 1) }

DistinctYears(rows) == \A r, q \in rows : r.year = q.year => r = q

\* one giver's rows, entered by the administrator (past_receivers) and stored by rounds
\* (assignments) in any order of years
InitHist ==
    /\ IdleEngine("logic")
    /\ Participant = ParticipantTable
    /\ flash = ""
    /\ requests = <<>>
    /\ session = NoSession
    /\ \E g \in {1, 2, 3} :
          /\ \E P \in SUBSET RowsOf(g) :
                /\ Cardinality(P) <= MaxPastReceivers + 1
                /\ DistinctYears(P)
                /\ PastReceiver = { [participant_id |-> r.giver, receiver_id |-> r.receiver,
                                     year |-> r.year] : r \in P }
          /\ \E l \in BoundedSeqs(RowsOf(g), MaxRecords) :
                /\ \A i, j \in DOMAIN l : l[i].year = l[j].year => i = j
                /\ Assignment = MapList(l, LAMBDA r : [giver_id |-> r.giver,
                                     receiver_id |-> r.receiver, year |-> r.year])

\* src/logic.py fetch_past_receiver
fetch_past_receiver ==
    /\ pc = "call"
    /\ IF get_all_participants = <<>>
       THEN pc' = "raised" /\ UNCHANGED history
       ELSE pc' = "returned" /\ history' \in logic_fetch_past_receiver
    /\ UNCHANGED <<variant, participants, past_receivers, candidate_assignment, attempts,
                   accepted, result, verdict, names>>
    /\ UNCHANGED storeVars
    /\ UNCHANGED webVars

NextHist == fetch_past_receiver

SpecHist == InitHist /\ [][NextHist]_vars

\* the years a giver has a stored row for, in either table
RecordedYears(id) ==
    { r.year : r \in { q \in PastReceiver : q.participant_id = id } }
        \cup { Assignment[i].year : i \in { j \in DOMAIN Assignment : Assignment[j].giver_id = id } }

\* the Lookback most recent of a set of years
MostRecent(years) == { y \in years : Cardinality({ z \in years : z > y }) < Lookback }

\* the names of a giver's receivers in the giver's most recent Lookback recorded years
RecentReceivers(id) ==
    LET recent == MostRecent(RecordedYears(id))
    IN  { NameOfId(r.receiver_id) :
            r \in { q \in PastReceiver : q.participant_id = id /\ q.year \in recent } }
        \cup { NameOfId(Assignment[i].receiver_id) :
            i \in { j \in DOMAIN Assignment :
                      Assignment[j].giver_id = id /\ Assignment[j].year \in recent } }

\* the entries of a list that is_valid_pairing compares a receiver with
Excluded(list) == { list[j] : j \in { k \in DOMAIN list : k > Len(list) - Lookback } }

\* C9: the receivers excluded for a giver are those of the giver's two most recently
\* recorded years, whatever the order in which the rows were stored.
C9_MostRecentYearsExcluded ==
    pc = "returned" =>
        \A p \in { q \in Participant : ~ q.admin } :
            Excluded(history[p.name]) = RecentReceivers(p.id)

---------------------------------------------------------------------------
(* Spec: the administrator's requests on the store
   (src/app/admin/routes.py over src/app/queries.py and src/app/logic.py) *)

\* what a request can carry: the ids of the URL, the names and years of the form
RequestIds == {1, 2, 3}
RequestNames == {"A", "B", "C", "nobody"}

\* the session after the administrator logged in (src/app/auth/routes.py:39-40)
AdminSession == [user |-> "Z", role |-> "admin"]

\* a decorator that lets every request through
login_not_required(role) == "ok"

\* src/app/decorators.py login_required(role): "ok", or the message of the refusal
login_required(role) ==
    IF session.user = "None" THEN "please log in"
    ELSE IF role # "None" /\ session.role # role THEN "no permission"
    ELSE "ok"

Init ==
    /\ IdleEngine("app")
    /\ Participant = ParticipantTable
    /\ PastReceiver = {}
    /\ Assignment = <<>>
    /\ flash = ""
    /\ requests = <<>>
    /\ session = AdminSession

\* a route without the test of lines 119-123
no_own_receiver_test(person_id, receiver_name) == FALSE

\* admin/routes.py:120-121: the participant exists and bears the receiver's name
is_own_receiver(person_id, receiver_name) ==
    HasParticipant(person_id) /\ Lower(NameOfId(person_id)) = Lower(receiver_name)

\* admin/routes.py add_receiver over queries.add_receiver
add_receiver(person_id, receiver_name, year) ==
    LET found == get_participant_id(receiver_name)
        receiver_id == CHOOSE id \in found : TRUE
    IN  /\ IF found = {}
           THEN flash' = "receiver not found" /\ UNCHANGED PastReceiver
           ELSE IF is_own_receiver(person_id, receiver_name)
           THEN flash' = "cannot be their own past receiver" /\ UNCHANGED PastReceiver
           ELSE IF check_duplicate_receiver(person_id, year)
           THEN flash' = "a receiver for the year is already assigned" /\ UNCHANGED PastReceiver
           ELSE IF receiver_taken(receiver_id, year)
           THEN flash' = "failed to add receiver" /\ UNCHANGED PastReceiver
           ELSE /\ Cardinality(PastReceiver) < MaxPastReceivers
                /\ PastReceiver' = PastReceiver \cup
                      { [participant_id |-> person_id, receiver_id |-> receiver_id, year |-> year] }
                /\ flash' = "receiver added"
        /\ UNCHANGED <<Participant, Assignment>>
        /\ UNCHANGED engineVars
        /\ UNCHANGED webVars

\* admin/routes.py remove_receiver over queries.remove_receiver
remove_receiver(person_id, receiver_name, year) ==
    LET found == get_participant_id(receiver_name)
        receiver_id == CHOOSE id \in found : TRUE
    IN  /\ IF found = {}
           THEN UNCHANGED <<PastReceiver, Assignment>>
           ELSE /\ PastReceiver' = PastReceiver \
                      { [participant_id |-> person_id, receiver_id |-> receiver_id, year |-> year] }
                /\ Assignment' = SelectSeq(Assignment, LAMBDA a :
                      ~ (a.giver_id = person_id /\ a.receiver_id = receiver_id /\ a.year = year))
        /\ flash' = "receiver removed"
        /\ UNCHANGED Participant
        /\ UNCHANGED engineVars
        /\ UNCHANGED webVars

\* the candidates generate_secret_santa of src/app/logic.py can draw over the store
drawn_candidates ==
    LET parts == get_all_participants
        ids == MapList(parts, LAMBDA q : q.id)
    IN  { Zip(ids, r) : r \in Shuffles(ids) }

\* the acceptance test of generate_secret_santa over the history fetched from the store
accepts_over_store(candidate) ==
    LET parts == get_all_participants
        rows == [id \in { parts[i].id : i \in DOMAIN parts } |-> get_past_assignments(id)]
    IN  Accepts(candidate, fetch_past_receivers(parts, rows), parts)

\* queries.assign_receiver for each pair of the round, in order
store_assignments(pairs, year) ==
    Assignment \o MapList(pairs, LAMBDA c : [giver_id |-> c[1], receiver_id |-> c[2], year |-> year])

\* admin/routes.py start_new_run: the checks, generate_secret_santa, the storing loop
start_new_run(year) ==
    /\ IF get_all_participants = <<>>
       THEN flash' = "no participants available" /\ UNCHANGED Assignment
       ELSE IF \E i \in DOMAIN get_all_participants :
                   get_current_receiver(get_all_participants[i].id, year)
       THEN flash' = "already has a receiver for the year" /\ UNCHANGED Assignment
       ELSE \/ \E c \in drawn_candidates :
                  /\ accepts_over_store(c)
                  /\ Assignment' = store_assignments(c, year)
                  /\ flash' = "round started"
            \/ /\ \E c \in drawn_candidates : ~ accepts_over_store(c)
               /\ flash' = "an unexpected error occurred"
               /\ UNCHANGED Assignment
    /\ UNCHANGED <<Participant, PastReceiver>>
    /\ UNCHANGED engineVars
    /\ UNCHANGED webVars

AddReceiver ==
    /\ login_required("admin") = "ok"
    /\ \E id \in RequestIds, n \in RequestNames, y \in Years : add_receiver(id, n, y)

RemoveReceiver ==
    /\ login_required("admin") = "ok"
    /\ \E id \in RequestIds, n \in RequestNames, y \in Years : remove_receiver(id, n, y)

StartNewRun ==
    /\ login_required("admin") = "ok"
    /\ \E y \in Years : start_new_run(y)

Next == AddReceiver \/ RemoveReceiver \/ StartNewRun

Spec == Init /\ [][Next]_vars

\* every stored (giver, receiver, year), from past_receivers and from assignments
StoredRecords ==
    { [giver |-> r.participant_id, receiver |-> r.receiver_id, year |-> r.year] : r \in PastReceiver }
        \cup { [giver |-> Assignment[i].giver_id, receiver |-> Assignment[i].receiver_id,
                year |-> Assignment[i].year] : i \in DOMAIN Assignment }

\* C10: no receiver is stored as the receiver of two different givers within one year.
C10_ReceiverOncePerYear ==
    \A r, q \in StoredRecords :
        (r.receiver = q.receiver /\ r.year = q.year) => r.giver = q.giver

\* the participant row with this id is an administrator
IsAdmin(id) == \E p \in Participant : p.id = id /\ p.admin

\* the number of stored records of a giver for a year, over both tables
RecordsOf(giver, year) ==
    Cardinality({ r \in PastReceiver : r.participant_id = giver /\ r.year = year })
        + Cardinality({ i \in DOMAIN Assignment :
                          Assignment[i].giver_id = giver /\ Assignment[i].year = year })

\* C15: whatever add_receiver requests and rounds ran, no stored record has the giver as
\* its receiver, and the list fetched for a giver never holds the giver's own name.
C15_NoSelfInHistory ==
    /\ \A r \in StoredRecords : r.giver # r.receiver
    /\ \A p \in { q \in Participant : ~ q.admin } : p.name \notin Range(get_past_assignments(p.id))

\* records of both kinds are stored and the last request asked for a giver's own name
C15_Witness ==
    /\ PastReceiver # {}
    /\ Assignment # <<>>
    /\ flash = "cannot be their own past receiver"

\* C16: each giver has at most one stored record (past receiver or assignment) per year.
C16_OneRecordPerGiverYear ==
    \A g \in RequestIds, y \in Years : RecordsOf(g, y) <= 1

\* C19: no administrator is giver or receiver of an assignment a round stored.
C19_AdminsExcluded ==
    \A i \in DOMAIN Assignment :
        ~ IsAdmin(Assignment[i].giver_id) /\ ~ IsAdmin(Assignment[i].receiver_id)

\* a round was stored while the participants table holds an administrator
C19_Witness ==
    /\ flash = "round started"
    /\ Assignment # <<>>
    /\ \E p \in Participant : p.admin

\* a pool member has a stored receiver for the year, as past receiver or as assignment
YearTaken(year) == \E p \in { q \in Participant : ~ q.admin } : RecordsOf(p.id, year) > 0

\* C27: start_new_run for a year for which a pool member already has a receiver is
\* refused and stores nothing: no step adds an assignment for such a year.
C27_RefusedWhenYearTaken ==
    [][ \A y \in Years :
          YearTaken(y) =>
              Cardinality({ i \in DOMAIN Assignment' : Assignment'[i].year = y })
                  <= Cardinality({ i \in DOMAIN Assignment : Assignment[i].year = y }) ]_vars

\* the same for a year whose round is stored: a pool member has an assignment for it
RerunLeavesRound ==
    [][ \A y \in Years :
          (\E i \in DOMAIN Assignment : Assignment[i].year = y /\ ~ IsAdmin(Assignment[i].giver_id))
              => Cardinality({ i \in DOMAIN Assignment' : Assignment'[i].year = y })
                  <= Cardinality({ i \in DOMAIN Assignment : Assignment[i].year = y }) ]_vars

---------------------------------------------------------------------------
(* SpecRounds: start_new_run requests served concurrently, one statement at a time
   (src/app/admin/routes.py:154-207; every query of src/app/queries.py commits on its own) *)

\* the requests in flight: two administrators, or one form sent twice
Slots == {1, 2}

\* a slot no request has taken yet
IdleRequest ==
    [pc |-> "idle", year |-> 0, participants |-> <<>>, past_receivers |-> <<>>,
     candidate_assignment |-> <<>>, attempts |-> 0, stored |-> 0, error |-> "none"]

\* the except clauses of start_new_run, lines 200-205
flash_for(exception) ==
    IF exception = "DatabaseError" THEN "failed to start a new run"
    ELSE "an unexpected error occurred"

InitRounds ==
    /\ IdleEngine("app")
    /\ Participant = ParticipantTable
    /\ PastReceiver = {}
    /\ Assignment = <<>>
    /\ flash = ""
    /\ requests = [r \in Slots |-> IdleRequest]
    /\ session = AdminSession

\* a step of request r: its locals change, the other request and the session do not
RequestStep(r, rec) ==
    /\ requests' = [requests EXCEPT ![r] = rec]
    /\ UNCHANGED <<Participant, PastReceiver, session>>
    /\ UNCHANGED engineVars

\* lines 158-175: the year of the form, the participants of the store
BeginRun(r) ==
    /\ requests[r].pc = "idle"
    /\ login_required("admin") = "ok"
    /\ \E year \in Years :
          IF get_all_participants = <<>>
          THEN /\ RequestStep(r, [requests[r] EXCEPT !.pc = "done", !.year = year])
               /\ flash' = "no participants available"
          ELSE /\ RequestStep(r, [requests[r] EXCEPT !.pc = "check", !.year = year,
                                                     !.participants = get_all_participants])
               /\ UNCHANGED flash
    /\ UNCHANGED Assignment

\* lines 177-184: get_current_receiver for each participant
CheckCurrentReceiver(r) ==
    /\ requests[r].pc = "check"
    /\ IF \E i \in DOMAIN requests[r].participants :
             get_current_receiver(requests[r].participants[i].id, requests[r].year)
       THEN /\ RequestStep(r, [requests[r] EXCEPT !.pc = "done"])
            /\ flash' = "already has a receiver for the year"
       ELSE /\ RequestStep(r, [requests[r] EXCEPT !.pc = "generate"])
            /\ UNCHANGED flash
    /\ UNCHANGED Assignment

\* fetch_past_receivers over the store as it is now
fetched_over_store ==
    LET parts == get_all_participants
        rows == [id \in { parts[i].id : i \in DOMAIN parts } |-> get_past_assignments(id)]
    IN  fetch_past_receivers(parts, rows)

\* src/app/logic.py:47-51: generate_secret_santa reads the history before the loop
FetchPastReceivers(r) ==
    /\ requests[r].pc = "generate"
    /\ IF get_all_participants = <<>>
       THEN /\ RequestStep(r, [requests[r] EXCEPT !.pc = "done", !.error = "NoParticipants"])
            /\ flash' = flash_for("ValueError")
       ELSE /\ RequestStep(r, [requests[r] EXCEPT !.pc = "loop",
                                                  !.past_receivers = fetched_over_store])
            /\ UNCHANGED flash
    /\ UNCHANGED Assignment

\* a loop that fetches the history anew for every attempt
refetched(r) == fetched_over_store

\* the history an attempt is validated against: the local past_receivers of line 51
captured(r) == requests[r].past_receivers

\* a generator that stores the candidate it accepts
assignments_stored_by_attempt(candidate, year, ok) ==
    IF ok THEN Assignment \o [i \in DOMAIN candidate |->
                  [giver_id |-> candidate[i][1], receiver_id |-> candidate[i][2], year |-> year]]
    ELSE Assignment

\* the table assignments after an iteration of the loop: lines 53-60 write nothing
assignments_after_attempt(candidate, year, ok) == Assignment

\* src/app/logic.py:53-60: one iteration of the loop
GenerateAttempt(r) ==
    /\ requests[r].pc = "loop"
    /\ requests[r].attempts < MaxAttempts
    /\ LET participant_ids == [i \in DOMAIN requests[r].participants |->
                                  requests[r].participants[i].id]
       IN  \E receiver_ids \in Shuffles(participant_ids) :
              LET candidate == Zip(participant_ids, receiver_ids)
                  ok == Accepts(candidate, captured(r), requests[r].participants)
              IN  /\ RequestStep(r, [requests[r] EXCEPT
                                        !.candidate_assignment = candidate,
                                        !.attempts = @ + 1,
                                        !.pc = IF ok THEN "store" ELSE "loop"])
                  /\ Assignment' = assignments_after_attempt(candidate, requests[r].year, ok)
    /\ UNCHANGED flash

\* src/app/logic.py:62-63 raises ValueError; admin/routes.py:203-205 catches it
GenerateExhausted(r) ==
    /\ requests[r].pc = "loop"
    /\ requests[r].attempts = MaxAttempts
    /\ RequestStep(r, [requests[r] EXCEPT !.pc = "done", !.error = "Exhausted"])
    /\ flash' = flash_for("ValueError")
    /\ UNCHANGED Assignment

\* lines 190-199: assign_receiver for the next pair, the success message after the last
StoreAssignment(r) ==
    /\ requests[r].pc = "store"
    /\ LET pair == requests[r].candidate_assignment[requests[r].stored + 1]
           last == requests[r].stored + 1 = Len(requests[r].candidate_assignment)
       IN  /\ Assignment' = Append(Assignment, [giver_id |-> pair[1], receiver_id |-> pair[2],
                                                 year |-> requests[r].year])
           /\ RequestStep(r, [requests[r] EXCEPT !.stored = @ + 1,
                                                 !.pc = IF last THEN "done" ELSE "store"])
           /\ IF last THEN flash' = "round started" ELSE UNCHANGED flash

\* assign_receiver raises DatabaseError (src/app/queries.py:80-83); lines 200-202 catch it
StoreFails(r) ==
    /\ requests[r].pc = "store"
    /\ RequestStep(r, [requests[r] EXCEPT !.pc = "done", !.error = "DatabaseError"])
    /\ flash' = flash_for("DatabaseError")
    /\ UNCHANGED Assignment

NextRounds ==
    \E r \in Slots :
        \/ BeginRun(r)
        \/ CheckCurrentReceiver(r)
        \/ FetchPastReceivers(r)
        \/ GenerateAttempt(r)
        \/ GenerateExhausted(r)
        \/ StoreAssignment(r)
        \/ StoreFails(r)

SpecRounds == InitRounds /\ [][NextRounds]_vars

---------------------------------------------------------------------------
(* Properties of concurrent rounds (SpecRounds) *)

\* every request has stored its whole round and flashed the success message
AllStored ==
    \A r \in Slots :
        /\ requests[r].pc = "done"
        /\ requests[r].error = "none"
        /\ requests[r].stored = Len(requests[r].participants)

\* C11: after two start_new_run requests for a year ran concurrently, the assignments of
\* the year hold no giver with two receivers and no receiver with two givers.
C11_NoConflictingAssignments ==
    (AllStored /\ requests[1].year = requests[2].year) =>
        \A i, j \in DOMAIN Assignment :
            Assignment[i].year = Assignment[j].year =>
                /\ Assignment[i].giver_id = Assignment[j].giver_id
                      => Assignment[i].receiver_id = Assignment[j].receiver_id
                /\ Assignment[i].receiver_id = Assignment[j].receiver_id
                      => Assignment[i].giver_id = Assignment[j].giver_id

\* C12: once generate_secret_santa has read the history, no step of any request changes
\* the captured history, and every attempt is accepted exactly when the captured history
\* accepts its candidate, whatever was stored meanwhile.
C12_HistorySnapshot ==
    [][ \A r \in Slots :
          requests[r].pc = "loop" =>
            /\ requests'[r].past_receivers = requests[r].past_receivers
            /\ requests'[r].attempts = requests[r].attempts + 1 =>
                  ((requests'[r].pc = "store")
                      <=> Accepts(requests'[r].candidate_assignment,
                                  requests[r].past_receivers, requests[r].participants)) ]_vars

\* a request is in its second attempt or later while the store no longer returns the
\* history the request captured
C12_Witness ==
    \E r \in Slots :
        /\ requests[r].pc \in {"loop", "store"}
        /\ requests[r].attempts >= 2
        /\ requests[r].past_receivers # fetched_over_store

\* C13: no step of generate_secret_santa (reading the history, an attempt, giving up)
\* changes the tables participants, past_receivers or assignments.
C13_GenerateLeavesStore ==
    [][ \A r \in Slots :
          (requests[r].pc \in {"generate", "loop"} /\ requests'[r] # requests[r])
              => UNCHANGED <<Participant, PastReceiver, Assignment>> ]_vars

\* one generate call succeeded and another failed while assignments were stored
C13_Witness ==
    /\ Assignment # <<>>
    /\ \E r \in Slots : requests[r].error = "Exhausted"
    /\ \E r \in Slots : requests[r].pc = "done" /\ requests[r].error = "none"
                          /\ requests[r].stored > 0

\* the receiver names of a giver's assignments of the years before `year`
ReceiversBefore(giver_id, year) ==
    { NameOfId(Assignment[i].receiver_id) :
        i \in { j \in DOMAIN Assignment :
                  Assignment[j].giver_id = giver_id /\ Assignment[j].year < year } }

\* C17: the history read for the round of year Y holds only receivers of records of
\* years before Y.
C17_OnlyEarlierYears ==
    [][ \A r \in Slots :
          (requests[r].pc = "generate" /\ requests'[r].pc = "loop") =>
              \A g \in DOMAIN requests'[r].past_receivers :
                  Range(requests'[r].past_receivers[g]) \subseteq ReceiversBefore(g, requests[r].year)
      ]_vars

\* C20: the message start_new_run flashes when generation is exhausted differs from the
\* messages it flashes for a database error and for any other exception.
C20_ExhaustedDistinct ==
    [][ \A r \in Slots :
          (requests[r].error = "none" /\ requests'[r].error = "Exhausted")
              => flash' \notin { flash_for("DatabaseError"), flash_for("Exception") } ]_vars

\* the number of assignments stored for a giver and a year
AssignmentsOf(giver_id, year) ==
    Cardinality({ i \in DOMAIN Assignment :
                    Assignment[i].giver_id = giver_id /\ Assignment[i].year = year })

\* C26: a round is persisted all-or-nothing: when a start_new_run request that ran alone
\* has finished, by success, by a failed generation or by a storage error, either every
\* pool member has exactly one assignment for its year or no pool member has one.
C26_AllOrNothing ==
    \A r \in Slots :
        (requests[r].pc = "done" /\ \A q \in Slots \ {r} : requests[q].pc = "idle") =>
            LET pool == { requests[r].participants[i].id : i \in DOMAIN requests[r].participants }
            IN  \/ \A g \in pool : AssignmentsOf(g, requests[r].year) = 1
                \/ \A g \in pool : AssignmentsOf(g, requests[r].year) = 0

---------------------------------------------------------------------------
(* SpecSession: the routes behind login_required, requested from a browser whose
   session changes by logging in (src/app/auth/routes.py, src/app/decorators.py,
   src/app/admin/routes.py) *)

\* the names a login form can carry: the administrator, a participant, a stranger
LoginNames == {"Z", "B", "nobody"}

\* get_role of src/app/queries.py: the set holding the role of the row with this name
get_role(name) ==
    { IF p.admin THEN "admin" ELSE "participant" : p \in { q \in Participant : q.name = name } }

InitSession ==
    /\ IdleEngine("app")
    /\ Participant = ParticipantTable
    /\ PastReceiver = {}
    /\ Assignment = <<>>
    /\ flash = ""
    /\ requests = <<>>
    /\ session = NoSession

\* src/app/auth/routes.py handle_login; password_ok is the outcome of bcrypt.checkpw
HandleLogin ==
    \E name \in LoginNames, password_ok \in BOOLEAN :
        /\ IF get_role(name) # {} /\ password_ok
           THEN /\ session' = [user |-> name, role |-> CHOOSE r \in get_role(name) : TRUE]
                /\ UNCHANGED flash
           ELSE /\ flash' = "login failed"
                /\ UNCHANGED session
        /\ UNCHANGED <<Participant, PastReceiver, Assignment, requests>>
        /\ UNCHANGED engineVars

\* src/app/decorators.py:27-45: an admin route turns the request of a session without
\* the admin role away
Refused ==
    /\ login_required("admin") # "ok"
    /\ flash' = login_required("admin")
    /\ UNCHANGED <<Participant, PastReceiver, Assignment>>
    /\ UNCHANGED webVars
    /\ UNCHANGED engineVars

\* queries.remove_participant: the row and, by the cascades of src/app/models.py:13-17,
\* every past receiver and assignment that names it as giver or as receiver
remove_participant(person_id) ==
    /\ Participant' = { p \in Participant : p.id # person_id }
    /\ IF HasParticipant(person_id)
       THEN /\ PastReceiver' = { r \in PastReceiver :
                                   r.participant_id # person_id /\ r.receiver_id # person_id }
            /\ Assignment' = SelectSeq(Assignment, LAMBDA a :
                                   a.giver_id # person_id /\ a.receiver_id # person_id)
       ELSE UNCHANGED <<PastReceiver, Assignment>>
    /\ flash' = "participant removed"
    /\ UNCHANGED webVars
    /\ UNCHANGED engineVars

RemoveParticipant ==
    /\ login_required("admin") = "ok"
    /\ \E id \in RequestIds : remove_participant(id)

\* src/app/auth/routes.py:54-61 logout: `@login_required` is written without parentheses,
\* so login_required receives the view as `role` and the function bound to /logout is
\* `decorator`; Flask calls it without `fn`, the TypeError goes to the handler of
\* src/app/errors/routes.py:15-19, and lines 58-59, which pop the session, never run
Logout ==
    /\ flash' = "a database error occurred"
    /\ UNCHANGED session
    /\ UNCHANGED requests
    /\ UNCHANGED <<Participant, PastReceiver, Assignment>>
    /\ UNCHANGED engineVars

NextSession ==
    \/ HandleLogin
    \/ Logout
    \/ Refused
    \/ AddReceiver
    \/ RemoveReceiver
    \/ RemoveParticipant
    \/ StartNewRun

SpecSession == InitSession /\ [][NextSession]_vars

\* the rows of assignments before the step are the first rows after it
OnlyAppended ==
    /\ Len(Assignment') >= Len(Assignment)
    /\ SubSeq(Assignment', 1, Len(Assignment)) = Assignment

\* the rows of assignments after the step are rows from before it, as they were and in
\* their order
OnlyDeleted ==
    LET kept == Range(Assignment')
    IN  Assignment' = SelectSeq(Assignment, LAMBDA a : a \in kept)

\* C18: no step changes the giver, receiver or year of a stored record, and a record
\* leaves the store only in a remove_receiver or remove_participant request of a session
\* with the admin role.
C18_RecordsImmutable ==
    [][ /\ OnlyAppended \/ OnlyDeleted
        /\ (~ (PastReceiver \subseteq PastReceiver') \/ ~ OnlyAppended)
              => /\ session.role = "admin"
                 /\ flash' \in {"receiver removed", "participant removed"} ]_vars

\* the administrator removed a participant of a stored round: the assignments naming the
\* participant are gone, the third is still there
C18_Witness ==
    /\ session.role = "admin"
    /\ flash = "participant removed"
    /\ Cardinality(Participant) = 3
    /\ Len(Assignment) = 1

\* C29: the handlers behind login_required(role='admin') take effect only in a session that
\* holds a user with the admin role, and a logout request leaves a session without user,
\* so that no protected handler runs until the next successful login.
C29_ProtectedHandlers ==
    [][ /\ (Participant' # Participant \/ PastReceiver' # PastReceiver \/ Assignment' # Assignment)
              => (session.user # "None" /\ session.role = "admin")
        /\ (flash' # flash /\ flash' \in {"a database error occurred", "logged out"})
              => (session'.user = "None" /\ \A role \in {"None", "admin", "participant"} :
                                                 login_required(role)' # "ok") ]_vars

---------------------------------------------------------------------------
(* SpecSeasons: rounds of strictly increasing years, each one fetched, generated and
   stored before the next, on a store nobody edits in between.  variant "app" runs
   start_new_run of src/app/admin/routes.py, variant "logic" the three calls of
   src/app.py:443-445 over src/logic.py and src/sql.py *)

\* rounds of one behaviour
MaxRounds == 4
\* the years a round can be run for: one more than rounds, so that a year can be skipped
SeasonYears == 1..(MaxRounds + 1)

\* four participants and one administrator
SeasonTable ==
    ParticipantTable \cup { [id |-> 5, name |-> "D", admin |-> FALSE] }

\* a name bound to the INTEGER column receiver_id: SQLite keeps a string that is no number
\* as TEXT, and a TEXT value equals no id.  The model writes the TEXT value of a name as the
\* negated id of the participant who bears it
TextValue(name) == 0 - (CHOOSE id \in get_participant_id(name) : TRUE)

\* the years some record is stored for
StoredYears ==
    { r.year : r \in PastReceiver } \cup { Assignment[i].year : i \in DOMAIN Assignment }

InitSeasons ==
    /\ \E v \in {"app", "logic"} : IdleEngine(v)
    /\ Participant = SeasonTable
    /\ PastReceiver = {}
    /\ Assignment = <<>>
    /\ flash = ""
    /\ requests = <<>>
    /\ session = AdminSession

\* src/logic.py store_new_receiver: sql_statements.add_receiver(giver_id, recipient, year)
\* for every pair, `recipient` being the name; src/sql.py add_receiver raises when the
\* receiver value already has a row for the year, after the rows of the pairs before it
\* were committed
store_new_receiver(receiver, year) ==
    LET row(c) == [participant_id |-> CHOOSE id \in get_participant_id(c[1]) : TRUE,
                   receiver_id |-> TextValue(c[2]), year |-> year]
        clash(i) == \E r \in PastReceiver : r.receiver_id = TextValue(receiver[i][2]) /\ r.year = year
        stored == { i \in DOMAIN receiver : \A j \in 1..i : ~ clash(j) }
    IN  PastReceiver \cup { row(receiver[i]) : i \in stored }

\* src/app.py:443-445: fetch_past_receiver, generate_secret_santa, store_new_receiver
logic_round(year) ==
    /\ get_all_participants # <<>>
    /\ \E past_receiver \in logic_fetch_past_receiver :
          LET parts == get_all_participants
              keys == MapList(parts, LAMBDA q : q.name)
          IN  \/ \E r \in Shuffles(keys) :
                    /\ Accepts(Zip(keys, r), past_receiver, <<>>)
                    /\ PastReceiver' = store_new_receiver(Zip(keys, r), year)
                    /\ flash' = "round started"
              \/ /\ \E r \in Shuffles(keys) : ~ Accepts(Zip(keys, r), past_receiver, <<>>)
                 /\ flash' = "an unexpected error occurred"
                 /\ UNCHANGED PastReceiver
    /\ UNCHANGED <<Participant, Assignment>>
    /\ UNCHANGED engineVars
    /\ UNCHANGED webVars

\* a round of the app generation for a year after every stored year
AppRound ==
    /\ variant = "app"
    /\ login_required("admin") = "ok"
    /\ Cardinality(StoredYears) < MaxRounds
    /\ \E y \in SeasonYears :
          /\ \A z \in StoredYears : z < y
          /\ start_new_run(y)

\* a round of the logic generation for a year after every stored year
LogicRound ==
    /\ variant = "logic"
    /\ login_required("admin") = "ok"
    /\ Cardinality(StoredYears) < MaxRounds
    /\ \E y \in SeasonYears :
          /\ \A z \in StoredYears : z < y
          /\ logic_round(y)

NextSeasons == AppRound \/ LogicRound

SpecSeasons == InitSeasons /\ [][NextSeasons]_vars

\* the participant a stored receiver value stands for: the id, or the bearer of the name
ReceiverPerson(value) == IF value < 0 THEN 0 - value ELSE value

\* what the rounds stored: giver, the person received, year
SeasonRecords ==
    { [giver |-> r.participant_id, receiver |-> ReceiverPerson(r.receiver_id), year |-> r.year] :
          r \in PastReceiver }
        \cup { [giver |-> Assignment[i].giver_id, receiver |-> Assignment[i].receiver_id,
                year |-> Assignment[i].year] : i \in DOMAIN Assignment }

\* the number of rounds from the round of year y1 to the round of year y2
RoundsApart(y1, y2) == Cardinality({ y \in StoredYears : y1 < y /\ y <= y2 })

\* C25: over rounds of strictly increasing years, each stored and read back as history for
\* the next, no giver has the same receiver in two rounds fewer than three rounds apart.
C25_NoEarlyRepeat ==
    \A r, q \in SeasonRecords :
        (r.giver = q.giver /\ r.year < q.year /\ RoundsApart(r.year, q.year) < 3)
            => r.receiver # q.receiver

\* the same property for the rounds of the app generation alone
AppNoEarlyRepeat == variant = "app" => C25_NoEarlyRepeat

\* the app generation stored four rounds, and a giver has the receiver of the first again
AppFourRounds ==
    /\ variant = "app"
    /\ Cardinality(StoredYears) = 4
    /\ \E i, j \in DOMAIN Assignment :
          /\ Assignment[i].giver_id = Assignment[j].giver_id
          /\ Assignment[i].receiver_id = Assignment[j].receiver_id
          /\ i # j

---------------------------------------------------------------------------
(* SpecRemoval: remove_participant on a store that holds records, in the app generation
   (src/app/queries.py over the cascades of src/app/models.py) and in the logic
   generation (src/sql.py) *)

\* one giver's rows in both tables, every participant still in the table
InitRemoval ==
    /\ \E v \in {"app", "logic"} : IdleEngine(v)
    /\ Participant = ParticipantTable
    /\ flash = ""
    /\ requests = <<>>
    /\ session = AdminSession
    /\ \E g \in {1, 2, 3} :
          /\ \E P \in SUBSET RowsOf(g) :
                /\ Cardinality(P) <= MaxPastReceivers + 1
                /\ DistinctYears(P)
                /\ PastReceiver = { [participant_id |-> r.giver, receiver_id |-> r.receiver,
                                     year |-> r.year] : r \in P }
          /\ \E l \in BoundedSeqs(RowsOf(g), MaxRecords) :
                /\ \A i, j \in DOMAIN l : l[i].year = l[j].year => i = j
                /\ Assignment = MapList(l, LAMBDA r : [giver_id |-> r.giver,
                                     receiver_id |-> r.receiver, year |-> r.year])

\* src/sql.py remove_participant: DELETE FROM past_receivers WHERE participant_id = id,
\* then DELETE FROM participants WHERE id = id; no foreign key is enforced
sql_remove_participant(participant_id) ==
    /\ PastReceiver' = { r \in PastReceiver : r.participant_id # participant_id }
    /\ Participant' = { p \in Participant : p.id # participant_id }
    /\ UNCHANGED Assignment
    /\ flash' = "participant removed"
    /\ UNCHANGED webVars
    /\ UNCHANGED engineVars

\* src/app/admin/routes.py remove_participant
AppRemoveParticipant ==
    /\ variant = "app"
    /\ login_required("admin") = "ok"
    /\ \E id \in RequestIds : remove_participant(id)

\* src/app.py remove_participant
SqlRemoveParticipant ==
    /\ variant = "logic"
    /\ login_required("admin") = "ok"
    /\ \E id \in RequestIds : sql_remove_participant(id)

NextRemoval == AppRemoveParticipant \/ SqlRemoveParticipant

SpecRemoval == InitRemoval /\ [][NextRemoval]_vars

\* C28: after remove_participant(p) no stored record refers to p: every past receiver and
\* every assignment has a giver and a receiver that are rows of the participants table.
C28_NoRecordOfRemoved ==
    \A r \in StoredRecords : HasParticipant(r.giver) /\ HasParticipant(r.receiver)

\* the same for the app generation alone
AppNoRecordOfRemoved == variant = "app" => C28_NoRecordOfRemoved

\* the app generation removed a participant that records named, and records are left
AppRemovedWithRecords ==
    /\ variant = "app"
    /\ flash = "participant removed"
    /\ Cardinality(Participant) = 3
    /\ StoredRecords # {}

---------------------------------------------------------------------------
(* SpecRename: rounds of the app generation on a store whose participants are renamed
   between them (src/app/admin/routes.py edit_participant, start_new_run) *)

\* the names an edit form can carry
RenameNames == {"A", "B", "C", "E"}

\* a participants table whose name column lacks `unique=True`
update_participant_name_unchecked(participant_id, name) ==
    /\ Participant' = { IF p.id = participant_id THEN [p EXCEPT !.name = name] ELSE p :
                            p \in Participant }
    /\ flash' = "participant updated"
    /\ UNCHANGED <<PastReceiver, Assignment>>
    /\ UNCHANGED engineVars
    /\ UNCHANGED webVars

\* edit_participant over queries.update_participant_name: the commit fails on the unique
\* name column (src/app/models.py:7) when another row bears the name
update_participant_name(participant_id, name) ==
    /\ IF HasParticipant(participant_id)
            /\ \E p \in Participant : p.id # participant_id /\ p.name = name
       THEN /\ flash' = "failed to update participant"
            /\ UNCHANGED Participant
       ELSE /\ Participant' = { IF p.id = participant_id THEN [p EXCEPT !.name = name] ELSE p :
                                    p \in Participant }
            /\ flash' = "participant updated"
    /\ UNCHANGED <<PastReceiver, Assignment>>
    /\ UNCHANGED engineVars
    /\ UNCHANGED webVars

EditParticipant ==
    /\ login_required("admin") = "ok"
    /\ \E id \in RequestIds, name \in RenameNames : update_participant_name(id, name)

NextRename == EditParticipant \/ StartNewRun

SpecRename == Init /\ [][NextRename]_vars

\* the receiver ids of a giver's assignments, in table order
past_receiver_ids(giver_id) ==
    MapList(SelectSeq(Assignment, LAMBDA a : a.giver_id = giver_id), LAMBDA a : a.receiver_id)

\* a check on identifiers: no self-pair, no receiver id among the giver's last Lookback
id_is_valid_pairing(candidate) ==
    \A i \in DOMAIN candidate :
        /\ candidate[i][1] # candidate[i][2]
        /\ candidate[i][2] \notin Range(LastK(past_receiver_ids(candidate[i][1]), Lookback))

\* C30: with unique participant names, the name-based check of src/app/logic.py over the
\* history fetched from the store accepts exactly the candidates the check on identifiers
\* accepts, also after participants were renamed.
C30_NameCheckIsIdCheck ==
    \A c \in Candidates(MapList(get_all_participants, LAMBDA q : q.id)) :
        accepts_over_store(c) <=> id_is_valid_pairing(c)

\* a participant was renamed after a round was stored, and the history of that round
\* rejects one derangement of the pool and accepts another
C30_Witness ==
    /\ flash = "participant updated"
    /\ Len(Assignment) = 3
    /\ \E p \in Participant : p.name = "E"
    /\ \E c, d \in drawn_candidates :
          /\ ~ HasSelfPair(c) /\ ~ accepts_over_store(c)
          /\ accepts_over_store(d)

=============================================================================
